---- MODULE Spec2Model ----
(***************************************************************************)
(* The menu-build pipeline of jiffy (src/applicationMenu.js): the          *)
(* read-through cache getAppMenu, the discovery scanner                    *)
(* collectDesktopFiles, the desktop-entry parser and the icon resolver     *)
(* findIconPath.  JavaScript strings are TLA+ strings, taken apart with    *)
(* Len, SubSeq and \o; a JavaScript object is the sequence of its          *)
(* <<key, value>> pairs in insertion order; the file system is the state.  *)
(***************************************************************************)
EXTENDS Integers, Sequences, FiniteSets, TLC

VARIABLES
    cacheDir,     \* whether HOME_DIR/.cache/jiffy/ exists
    cacheFile,    \* the cache file: [exists, readable, data]
    appDirs,      \* directory path -> [err, files]: what OS.readdir answers
    appFiles,     \* descriptor path -> [readable, lines]
    iconDirs,     \* icon base path -> [err, dirs]: what OS.readdir answers
    iconFiles,    \* the set of paths OS.stat finds
    call,         \* the last operation run and its arguments (USER_ARGUMENTS.refresh)
    ret,          \* what that operation returned or threw
    trace,        \* what that operation did to the file system, in order
    built,        \* the appMenuCache object of the last build that was persisted
    fresh         \* TRUE while the cache file is as the last build wrote it

vars == <<cacheDir, cacheFile, appDirs, appFiles, iconDirs, iconFiles,
          call, ret, trace, built, fresh>>

fsVars == <<cacheDir, cacheFile, appDirs, appFiles, iconDirs, iconFiles>>

(***************************************************************************)
(* JavaScript string primitives.                                           *)
(***************************************************************************)
\* "" outside the string, as in JavaScript
charAt(s, i) == IF i >= 1 /\ i <= Len(s) THEN SubSeq(s, i, i) ELSE ""

\* whether p occurs in s at position i
occursAt(s, i, p) == i + Len(p) - 1 <= Len(s) /\ SubSeq(s, i, i + Len(p) - 1) = p

startsWith(s, p) == Len(s) >= Len(p) /\ SubSeq(s, 1, Len(p)) = p

endsWith(s, p) == Len(s) >= Len(p) /\ SubSeq(s, Len(s) - Len(p) + 1, Len(s)) = p

\* the positions of the one-character string c in s
positions(s, c) == {i \in 1..Len(s) : SubSeq(s, i, i) = c}

\* 1-based position of the first occurrence of c in s, 0 when absent
indexOf(s, c) ==
    IF positions(s, c) = {} THEN 0
    ELSE CHOOSE i \in positions(s, c) : \A j \in positions(s, c) : i <= j

lastIndexOf(s, c) ==
    IF positions(s, c) = {} THEN 0
    ELSE CHOOSE i \in positions(s, c) : \A j \in positions(s, c) : i >= j

UPPER == "ABCDEFGHIJKLMNOPQRSTUVWXYZ"
LOWER == "abcdefghijklmnopqrstuvwxyz"

lowerChar(c) ==
    IF indexOf(UPPER, c) > 0 THEN charAt(LOWER, indexOf(UPPER, c)) ELSE c

\* the concatenation of piece[lo] .. piece[hi], piece being a sequence of strings
RECURSIVE concat(_, _, _)
concat(piece, lo, hi) ==
    IF lo > hi THEN ""
    ELSE IF lo = hi THEN piece[lo]
    ELSE concat(piece, lo, (lo + hi) \div 2) \o concat(piece, (lo + hi) \div 2 + 1, hi)

toLowerCase(s) == concat([i \in 1..Len(s) |-> lowerChar(SubSeq(s, i, i))], 1, Len(s))

\* the characters with code 32..126 (code 96, the backquote, cannot be written
\* in a TLA+ string and is left out of the modelled alphabet)
ASCII_PRINTABLE ==
    " !\"#$%&'()*+,-./0123456789:;<=>?@" \o UPPER \o "[\\]^_" \o LOWER \o "{|}~"

WHITESPACE == " \t"

isSpace(c) == indexOf(WHITESPACE, c) > 0

\* Array.prototype.join
RECURSIVE join(_, _)
join(parts, sep) ==
    IF parts = <<>> THEN ""
    ELSE IF Len(parts) = 1 THEN parts[1]
    ELSE parts[1] \o sep \o join(Tail(parts), sep)

\* String.prototype.split on a one-character separator
RECURSIVE split(_, _)
split(s, c) ==
    LET i == indexOf(s, c) IN
    IF i = 0 THEN <<s>>
    ELSE <<SubSeq(s, 1, i - 1)>> \o split(SubSeq(s, i + 1, Len(s)), c)

\* String.prototype.trim
RECURSIVE trimStart(_)
trimStart(s) ==
    IF s # "" /\ isSpace(charAt(s, 1)) THEN trimStart(SubSeq(s, 2, Len(s))) ELSE s

RECURSIVE trimEnd(_)
trimEnd(s) ==
    IF s # "" /\ isSpace(charAt(s, Len(s))) THEN trimEnd(SubSeq(s, 1, Len(s) - 1)) ELSE s

trim(s) == trimEnd(trimStart(s))

(***************************************************************************)
(* JavaScript objects: sequences of <<key, value>> pairs.                  *)
(***************************************************************************)
hasKey(obj, k) == \E i \in 1..Len(obj) : obj[i][1] = k

keyIndex(obj, k) == CHOOSE i \in 1..Len(obj) : obj[i][1] = k

\* obj[k]; only used where the key is present
get(obj, k) == obj[keyIndex(obj, k)][2]

\* obj[k] = v: in place when the key exists, appended otherwise
put(obj, k, v) ==
    IF hasKey(obj, k)
    THEN [obj EXCEPT ![keyIndex(obj, k)] = <<k, v>>]
    ELSE Append(obj, <<k, v>>)

\* delete obj[k]
RECURSIVE del(_, _)
del(obj, k) ==
    IF obj = <<>> THEN <<>>
    ELSE (IF obj[1][1] = k THEN <<>> ELSE <<obj[1]>>) \o del(Tail(obj), k)

\* Object.keys(obj).length
keyCount(obj) == Len(obj)

(***************************************************************************)
(* Ambient values.                                                         *)
(***************************************************************************)
\* the HOME_DIR global of the running process
HOME_DIR == "/home/u"

\* stands for the bullet U+2022 and a space, which a TLA+ string cannot hold
BULLET == "* "

\* stands for " │ ", the box-drawing bar between categories
CATEGORY_SEPARATOR == " | "

\* a result of a search that may find nothing
NotFound == [found |-> FALSE, path |-> ""]
Found(p) == [found |-> TRUE, path |-> p]

(***************************************************************************)
(* findIconPath.                                                           *)
(***************************************************************************)
ICON_PATHS == <<HOME_DIR \o "/.local/share/icons", "/usr/share/icons", "/usr/share/pixmaps">>
ICON_SIZES == <<"48x48", "32x32", "24x24", "16x16", "scalable">>
ICON_CATEGORIES == <<"apps", "applications">>
ICON_EXTENSIONS == <<".svg", ".png", ".xpm">>

\* OS.stat(path)[1] === 0
statOk(path) == path \in iconFiles

\* iconName.replace(/\.[^/.]+$/, ""): the last dot and what follows it, when that
\* is at least one character and holds no slash
stripExtension(iconName) ==
    LET d == lastIndexOf(iconName, ".") IN
    IF d > 0 /\ d < Len(iconName) /\ indexOf(SubSeq(iconName, d + 1, Len(iconName)), "/") = 0
    THEN SubSeq(iconName, 1, d - 1)
    ELSE iconName

\* for (const ext of ICON_EXTENSIONS) over the candidates stem + ext
RECURSIVE probeExtensions(_, _)
probeExtensions(stem, e) ==
    IF e > Len(ICON_EXTENSIONS) THEN NotFound
    ELSE IF statOk(stem \o ICON_EXTENSIONS[e]) THEN Found(stem \o ICON_EXTENSIONS[e])
    ELSE probeExtensions(stem, e + 1)

\* for (const category of ICON_CATEGORIES)
RECURSIVE probeCategories(_, _, _)
probeCategories(sizeDir, iconName, c) ==
    IF c > Len(ICON_CATEGORIES) THEN NotFound
    ELSE LET r == probeExtensions(sizeDir \o "/" \o ICON_CATEGORIES[c] \o "/" \o iconName, 1) IN
         IF r.found THEN r ELSE probeCategories(sizeDir, iconName, c + 1)

\* for (const size of ICON_SIZES)
RECURSIVE probeSizes(_, _, _)
probeSizes(themeDir, iconName, z) ==
    IF z > Len(ICON_SIZES) THEN NotFound
    ELSE LET r == probeCategories(themeDir \o "/" \o ICON_SIZES[z], iconName, 1) IN
         IF r.found THEN r ELSE probeSizes(themeDir, iconName, z + 1)

\* for (const theme of ["hicolor", ...themes])
RECURSIVE probeThemes(_, _, _, _)
probeThemes(basePath, themes, iconName, t) ==
    IF t > Len(themes) THEN NotFound
    ELSE LET r == probeSizes(basePath \o "/" \o themes[t], iconName, 1) IN
         IF r.found THEN r ELSE probeThemes(basePath, themes, iconName, t + 1)

\* a resolver that searches "hicolor" after the listed themes
probeBaseListedFirst(basePath, iconName) ==
    IF basePath = "/usr/share/pixmaps"
    THEN probeExtensions(basePath \o "/" \o iconName, 1)
    ELSE IF iconDirs[basePath].err # 0 THEN NotFound
    ELSE probeThemes(basePath, iconDirs[basePath].dirs \o <<"hicolor">>, iconName, 1)

\* the body of for (const basePath of ICON_PATHS)
probeBase(basePath, iconName) ==
    IF basePath = "/usr/share/pixmaps"
    THEN probeExtensions(basePath \o "/" \o iconName, 1)
    ELSE IF iconDirs[basePath].err # 0 THEN NotFound
    ELSE probeThemes(basePath, <<"hicolor">> \o iconDirs[basePath].dirs, iconName, 1)

RECURSIVE probeBases(_, _)
probeBases(iconName, b) ==
    IF b > Len(ICON_PATHS) THEN NotFound
    ELSE LET r == probeBase(ICON_PATHS[b], iconName) IN
         IF r.found THEN r ELSE probeBases(iconName, b + 1)

findIconPath(iconName) ==
    IF startsWith(iconName, "/") /\ statOk(iconName) THEN iconName
    ELSE LET name == stripExtension(iconName)
             r == probeBases(name, 1)
         IN  IF r.found THEN r.path ELSE name

(***************************************************************************)
(* The field rules of the desktop-entry parser.                            *)
(***************************************************************************)
\* the end of the token execValue.match(/("[^"]+"|\S+)/g) finds at position i:
\* a quoted span when a closing quote follows at least one other character,
\* otherwise the run of non-blank characters
RECURSIVE runEnd(_, _)
runEnd(s, i) ==
    IF i < Len(s) /\ ~isSpace(charAt(s, i + 1)) THEN runEnd(s, i + 1) ELSE i

tokenEnd(s, i) ==
    LET q == indexOf(SubSeq(s, i + 1, Len(s)), "\"") IN
    IF charAt(s, i) = "\"" /\ q > 1 THEN i + q ELSE runEnd(s, i)

RECURSIVE matchTokens(_, _)
matchTokens(s, i) ==
    IF i > Len(s) THEN <<>>
    ELSE IF isSpace(charAt(s, i)) THEN matchTokens(s, i + 1)
    ELSE <<SubSeq(s, i, tokenEnd(s, i))>> \o matchTokens(s, tokenEnd(s, i) + 1)

\* /^%[a-zA-Z]/.test(token)
isFieldCode(token) ==
    /\ Len(token) >= 2
    /\ charAt(token, 1) = "%"
    /\ indexOf(UPPER \o LOWER, charAt(token, 2)) > 0

RECURSIVE dropFieldCodes(_)
dropFieldCodes(tokens) ==
    IF tokens = <<>> THEN <<>>
    ELSE (IF isFieldCode(tokens[1]) THEN <<>> ELSE <<tokens[1]>>)
         \o dropFieldCodes(Tail(tokens))

parseExecField(execValue) == join(dropFieldCodes(matchTokens(execValue, 1)), " ")

\* .filter(Boolean)
RECURSIVE dropEmpty(_)
dropEmpty(parts) ==
    IF parts = <<>> THEN <<>>
    ELSE (IF parts[1] = "" THEN <<>> ELSE <<parts[1]>>) \o dropEmpty(Tail(parts))

parseCategoriesField(categoriesValue) ==
    trim(join(dropEmpty(split(categoriesValue, ";")), CATEGORY_SEPARATOR))

isAsciiPrintable(str) == str # "" /\ indexOf(ASCII_PRINTABLE, charAt(str, 1)) > 0

RECURSIVE keepPrintable(_)
keepPrintable(parts) ==
    IF parts = <<>> THEN <<>>
    ELSE (IF isAsciiPrintable(parts[1]) THEN <<parts[1]>> ELSE <<>>)
         \o keepPrintable(Tail(parts))

parseKeywordsField(keywordsValue) ==
    trim(join(keepPrintable(split(keywordsValue, ";")), ", "))

\* the keys of FIELD_PARSERS
FIELD_NAMES ==
    {"Name", "Comment", "Exec", "Icon", "Terminal", "NoDisplay", "Categories", "Keywords"}

\* FIELD_PARSERS[fieldName](fieldValue) applied to appData
applyField(appData, fieldName, fieldValue) ==
    CASE fieldName = "Name"       -> put(appData, "name", BULLET \o fieldValue)
      [] fieldName = "Comment"    -> put(appData, "description", fieldValue)
      [] fieldName = "Exec"       -> put(appData, "exec", parseExecField(fieldValue))
      [] fieldName = "Icon"       -> put(appData, "icon", findIconPath(fieldValue))
      [] fieldName = "Terminal"   -> put(appData, "terminal", toLowerCase(fieldValue) = "true")
      [] fieldName = "NoDisplay"  -> put(appData, "noDisplay", toLowerCase(fieldValue) = "true")
      [] fieldName = "Categories" -> put(appData, "category", parseCategoriesField(fieldValue))
      [] fieldName = "Keywords"   -> put(appData, "keywords", parseKeywordsField(fieldValue))
      [] OTHER                    -> appData

REQUIRED_FIELDS == 7

(***************************************************************************)
(* extractDesktopEntryData, parseDesktopFile, parseDesktopFiles.           *)
(***************************************************************************)
\* the value null
NULL == <<>>

\* what extractDesktopEntryData hands back: the object, or the error it raised;
\* read is the number of lines it took from the file, early whether it left the
\* loop by the break of line 178
Data(appData, read, early) ==
    [threw |-> FALSE, appData |-> appData, read |-> read, early |-> early]
Threw(read) == [threw |-> TRUE, appData |-> NULL, read |-> read, early |-> FALSE]

\* FIELD_PARSERS is a plain object: FIELD_PARSERS["__proto__"] is Object.prototype,
\* truthy and not callable, so calling it raises a TypeError
NOT_CALLABLE == {"__proto__"}

\* the while (true) loop over fileDescriptor.getline(), lines[i] being the line read;
\* stopEarly switches the break of line 178 (the code runs with it on)
RECURSIVE readLines(_, _, _, _, _)
readLines(lines, i, appData, inDesktopEntry, stopEarly) ==
    IF i > Len(lines) THEN Data(appData, Len(lines), FALSE)
    ELSE LET line == lines[i]
             separatorIndex == indexOf(line, "=")
             fieldName == SubSeq(line, 1, separatorIndex - 1)
             fieldValue == SubSeq(line, separatorIndex + 1, Len(line))
             after == applyField(appData, fieldName, fieldValue)
         IN  IF startsWith(line, "[Desktop Entry]")
             THEN readLines(lines, i + 1, appData, TRUE, stopEarly)
             ELSE IF startsWith(line, "[") /\ inDesktopEntry THEN Data(appData, i, FALSE)
             ELSE IF ~inDesktopEntry
             THEN readLines(lines, i + 1, appData, inDesktopEntry, stopEarly)
             ELSE IF separatorIndex = 0
             THEN readLines(lines, i + 1, appData, inDesktopEntry, stopEarly)
             ELSE IF fieldName \in NOT_CALLABLE THEN Threw(i)
             ELSE IF stopEarly /\ keyCount(after) >= REQUIRED_FIELDS + 1
             THEN Data(after, i, TRUE)
             ELSE readLines(lines, i + 1, after, inDesktopEntry, stopEarly)

extractDesktopEntryData(lines) ==
    readLines(lines, 1, <<<<"noDisplay", FALSE>>>>, FALSE, TRUE)

\* STD.open(filePath, "r") succeeds
canOpen(filePath) == filePath \in DOMAIN appFiles /\ appFiles[filePath].readable

\* the validation of parseDesktopFile on what was extracted
validate(r, filePath) ==
    IF r.threw THEN NULL
    ELSE IF /\ keyCount(r.appData) > 0
            /\ ~get(r.appData, "noDisplay")
            /\ hasKey(r.appData, "exec")
            /\ get(r.appData, "exec") # ""
         THEN put(del(r.appData, "noDisplay"), "path", filePath)
         ELSE NULL

parseDesktopFile(filePath) ==
    IF ~canOpen(filePath) THEN NULL
    ELSE validate(extractDesktopEntryData(appFiles[filePath].lines), filePath)

RECURSIVE parseDesktopFiles(_)
parseDesktopFiles(filePaths) ==
    IF filePaths = <<>> THEN <<>>
    ELSE (IF parseDesktopFile(filePaths[1]) # NULL
          THEN <<parseDesktopFile(filePaths[1])>> ELSE <<>>)
         \o parseDesktopFiles(Tail(filePaths))

(***************************************************************************)
(* collectDesktopFiles, prepareAppsMenu.                                   *)
(***************************************************************************)
\* OS.readdir(dir): [files, err]
readdir(dir) ==
    IF dir \in DOMAIN appDirs THEN appDirs[dir] ELSE [err |-> 2, files |-> <<>>]

\* scanFiles remembering full paths instead of file names: no override across directories
RECURSIVE scanFilesByPath(_, _, _, _)
scanFilesByPath(dir, files, k, acc) ==
    IF k > Len(files) THEN acc
    ELSE IF ~endsWith(files[k], ".desktop") \/ (dir \o "/" \o files[k]) \in acc.fileNames
    THEN scanFilesByPath(dir, files, k + 1, acc)
    ELSE scanFilesByPath(dir, files, k + 1,
                   [fileNames |-> acc.fileNames \cup {dir \o "/" \o files[k]},
                    filePaths |-> Append(acc.filePaths, dir \o "/" \o files[k])])

\* for (const file of files), acc being [fileNames, filePaths]
RECURSIVE scanFiles(_, _, _, _)
scanFiles(dir, files, k, acc) ==
    IF k > Len(files) THEN acc
    ELSE IF ~endsWith(files[k], ".desktop") \/ files[k] \in acc.fileNames
    THEN scanFiles(dir, files, k + 1, acc)
    ELSE scanFiles(dir, files, k + 1,
                   [fileNames |-> acc.fileNames \cup {files[k]},
                    filePaths |-> Append(acc.filePaths, dir \o "/" \o files[k])])

\* for (const dir of directories)
RECURSIVE scanDirs(_, _, _)
scanDirs(directories, d, acc) ==
    IF d > Len(directories) THEN acc
    ELSE IF readdir(directories[d]).err # 0 THEN scanDirs(directories, d + 1, acc)
    ELSE scanDirs(directories, d + 1,
                  scanFiles(directories[d], readdir(directories[d]).files, 1, acc))

collectDesktopFiles(directories) ==
    scanDirs(directories, 1, [fileNames |-> {}, filePaths |-> <<>>]).filePaths

SYSTEM_APPLICATIONS == "/usr/share/applications"
USER_APPLICATIONS == HOME_DIR \o "/.local/share/applications"

DESKTOP_DIRS == <<SYSTEM_APPLICATIONS, USER_APPLICATIONS>>

prepareAppsMenu == parseDesktopFiles(collectDesktopFiles(DESKTOP_DIRS))

(***************************************************************************)
(* JSON.stringify and JSON.parse, on the text of the cache file.  The      *)
(* values the program encodes are strings, booleans, arrays and objects;   *)
(* the grammar decoded is JSON without numbers.                            *)
(***************************************************************************)
\* the keys whose values are booleans
BOOLEAN_KEYS == {"terminal", "noDisplay"}

escapeChar(c) ==
    CASE c = "\"" -> "\\\""
      [] c = "\\" -> "\\\\"
      [] c = "\t" -> "\\t"
      [] OTHER    -> c

escape(str) == concat([i \in 1..Len(str) |-> escapeChar(SubSeq(str, i, i))], 1, Len(str))

quote(str) == "\"" \o escape(str) \o "\""

stringifyMember(p) ==
    quote(p[1]) \o ":"
        \o (IF p[1] \in BOOLEAN_KEYS THEN (IF p[2] THEN "true" ELSE "false") ELSE quote(p[2]))

\* JSON.stringify of an application record
stringifyRecord(obj) ==
    "{" \o join([i \in 1..Len(obj) |-> stringifyMember(obj[i])], ",") \o "}"

\* JSON.stringify of { Apps: appMenu }
stringify(appMenuCache) ==
    "{" \o quote(appMenuCache[1][1]) \o ":["
        \o join([i \in 1..Len(appMenuCache[1][2]) |-> stringifyRecord(appMenuCache[1][2][i])], ",")
        \o "]}"

SyntaxError == [ok |-> FALSE, val |-> NULL, pos |-> 0]
Parsed(v, next) == [ok |-> TRUE, val |-> v, pos |-> next]

RECURSIVE skipWs(_, _)
skipWs(s, i) == IF isSpace(charAt(s, i)) THEN skipWs(s, i + 1) ELSE i

\* the number of backslashes that stand in a row right before position k, counted
\* no further back than position from
backslashesBefore(s, from, k) ==
    CHOOSE n \in 0..(k - from) :
        /\ \A m \in 1..n : SubSeq(s, k - m, k - m) = "\\"
        /\ (n = k - from \/ SubSeq(s, k - n - 1, k - n - 1) # "\\")

\* whether the character at k is the second of an escape pair
escaped(s, from, k) == backslashesBefore(s, from, k) % 2 = 1

\* the position of the quote that closes the string literal whose characters begin
\* at from, 0 when the text ends first
closingQuote(s, from) ==
    LET ends == {j \in from..Len(s) : SubSeq(s, j, j) = "\"" /\ ~escaped(s, from, j)}
    IN  IF ends = {} THEN 0 ELSE CHOOSE j \in ends : \A k \in ends : j <= k

UNESCAPABLE == "\"\\/t"

\* what the character at k adds to the decoded string
decodedAt(s, from, k) ==
    LET c == SubSeq(s, k, k) IN
    IF escaped(s, from, k) THEN (IF c = "t" THEN "\t" ELSE c)
    ELSE IF c = "\\" THEN ""
    ELSE c

\* whether the character at k may stand where it does in a string literal
legalAt(s, from, k) ==
    LET c == SubSeq(s, k, k) IN
    IF escaped(s, from, k) THEN indexOf(UNESCAPABLE, c) > 0 ELSE c # "\t"

\* the string literal whose opening quote is at i
parseString(s, i) ==
    LET from == i + 1
        to == closingQuote(s, from)
    IN  IF charAt(s, i) # "\"" \/ to = 0 THEN SyntaxError
        ELSE IF \E k \in from..(to - 1) : ~legalAt(s, from, k) THEN SyntaxError
        ELSE Parsed(concat([k \in 1..(to - from) |-> decodedAt(s, from, from + k - 1)],
                           1, to - from),
                    to + 1)

RECURSIVE parseValue(_, _)
RECURSIVE parseElements(_, _, _)
RECURSIVE parseMembers(_, _, _)

parseValue(s, i) ==
    LET c == charAt(s, i)
        j == skipWs(s, i + 1)
    IN  CASE c = "{"  -> IF charAt(s, j) = "}" THEN Parsed(<<>>, j + 1)
                         ELSE parseMembers(s, j, <<>>)
          [] c = "["  -> IF charAt(s, j) = "]" THEN Parsed(<<>>, j + 1)
                         ELSE parseElements(s, j, <<>>)
          [] c = "\"" -> parseString(s, i)
          [] occursAt(s, i, "true")  -> Parsed(TRUE, i + 4)
          [] occursAt(s, i, "false") -> Parsed(FALSE, i + 5)
          [] occursAt(s, i, "null")  -> Parsed(NULL, i + 4)
          [] OTHER    -> SyntaxError

parseElements(s, i, acc) ==
    LET v == parseValue(s, i)
        j == skipWs(s, v.pos)
    IN  IF ~v.ok THEN SyntaxError
        ELSE IF charAt(s, j) = "," THEN parseElements(s, skipWs(s, j + 1), Append(acc, v.val))
        ELSE IF charAt(s, j) = "]" THEN Parsed(Append(acc, v.val), j + 1)
        ELSE SyntaxError

parseMembers(s, i, acc) ==
    LET k == parseString(s, i)
        c == skipWs(s, k.pos)
        v == parseValue(s, skipWs(s, c + 1))
        j == skipWs(s, v.pos)
    IN  IF ~k.ok \/ charAt(s, c) # ":" THEN SyntaxError
        ELSE IF ~v.ok THEN SyntaxError
        ELSE IF charAt(s, j) = "," THEN parseMembers(s, skipWs(s, j + 1), Append(acc, <<k.val, v.val>>))
        ELSE IF charAt(s, j) = "}" THEN Parsed(Append(acc, <<k.val, v.val>>), j + 1)
        ELSE SyntaxError

\* JSON.parse(text): the value, or [ok |-> FALSE] for the SyntaxError it raises
parse(text) ==
    LET v == parseValue(text, skipWs(text, 1)) IN
    IF v.ok /\ skipWs(text, v.pos) = Len(text) + 1 THEN v ELSE SyntaxError

(***************************************************************************)
(* getAppMenu.                                                             *)
(***************************************************************************)
cachedApplicationMenuDirPath == HOME_DIR \o "/.cache/jiffy/"
cachedApplicationMenuFilePath == cachedApplicationMenuDirPath \o "appsMenu.json"

ENOENT == 2

\* errno values other than ENOENT the model lets STD.open fail with: EACCES for a
\* file the process may not open, EMFILE for a failure that passes by itself
EACCES_ERRNO == {13}
TRANSIENT_ERRNO == {24}

\* ensureDir(path) of utils.js: whether the directory exists once it has run
ensureDir(dirThere) == TRUE

NoFile == [exists |-> FALSE, readable |-> FALSE, writable |-> FALSE, data |-> ""]

\* what the operation handed to its caller
Return(v) == [kind |-> "return", value |-> v]
Throw(name, message) == [kind |-> "throw", value |-> <<name, message>>]
Nothing == [kind |-> "none", value |-> NULL]

\* STD.loadFile(path) is not null
canLoad == cacheFile.exists /\ cacheFile.readable

\* the errno STD.open(path, "w+", error) answers, 0 for a file descriptor: "w+"
\* creates or truncates, and asks for read and write access to an existing file
openErrno(dirThere, fault) ==
    IF ~dirThere THEN ENOENT
    ELSE IF cacheFile.exists /\ ~(cacheFile.readable /\ cacheFile.writable)
    THEN CHOOSE e \in EACCES_ERRNO : TRUE
    ELSE fault

\* the file after fd.puts(text); fd.close() on a descriptor opened with "w+"
written(text) == [exists |-> TRUE, readable |-> TRUE, writable |-> TRUE, data |-> text]

openFailure(errno) ==
    Throw("Error", "Failed to open file \"" \o cachedApplicationMenuFilePath
                       \o "\".\nError code: " \o ToString(errno))

\* a getAppMenu that never consults the cache
hitsCacheNever(refreshFlag) == FALSE

\* a getAppMenu that consults the cache whatever the refresh argument says
hitsCacheAlways(refreshFlag) == canLoad /\ cacheFile.data # ""

\* if (!USER_ARGUMENTS.refresh) { ... if (cacheFile) ...: the cache text is decoded
hitsCache(refreshFlag) == ~refreshFlag /\ canLoad /\ cacheFile.data # ""

\* one run of getAppMenu, with USER_ARGUMENTS.refresh = refreshFlag; fault1 and
\* fault2 are what the system does to the first and the second STD.open when
\* nothing in the file system stands in their way (0: nothing)
\* the cache-hit return of lines 14..18
ReturnCached ==
    \E decoded \in {parse(cacheFile.data)} :
        /\ ret' = IF decoded.ok THEN Return(decoded.val)
                  ELSE Throw("SyntaxError", cacheFile.data)
        /\ trace' = <<<<"loadFile">>, <<"JSON.parse">>>>
        /\ UNCHANGED <<cacheDir, cacheFile, built, fresh>>

\* the rebuild and write of lines 21..42
Rebuild(refreshFlag, fault1, fault2) ==
    \E appMenu \in {prepareAppsMenu} :
    \E text \in {stringify(<<<<"Apps", appMenu>>>>)} :
    LET errno1 == openErrno(cacheDir, fault1)
        dirAfter == IF errno1 = ENOENT THEN ensureDir(cacheDir) ELSE cacheDir
        errno2 == openErrno(dirAfter, fault2)
        appMenuCache == <<<<"Apps", appMenu>>>>
        reads == IF refreshFlag THEN <<>> ELSE <<<<"loadFile">>>>
        first == reads \o <<<<"prepareAppsMenu">>, <<"open", errno1>>>>
        second == first \o (IF errno1 = ENOENT THEN <<<<"ensureDir">>>> ELSE <<>>)
                        \o <<<<"open", errno2>>>>
    IN  IF errno1 = 0
        THEN /\ ret' = Return(appMenuCache)
             /\ trace' = first \o <<<<"puts">>, <<"close">>>>
             /\ cacheFile' = written(text)
             /\ built' = appMenuCache
             /\ fresh' = TRUE
             /\ UNCHANGED cacheDir
        ELSE IF errno2 = 0
        THEN /\ ret' = Return(appMenuCache)
             /\ trace' = second \o <<<<"puts">>, <<"close">>>>
             /\ cacheDir' = dirAfter
             /\ cacheFile' = written(text)
             /\ built' = appMenuCache
             /\ fresh' = TRUE
        ELSE /\ ret' = openFailure(errno2)
             /\ trace' = second
             /\ cacheDir' = dirAfter
             /\ UNCHANGED <<cacheFile, built, fresh>>

GetAppMenu(refreshFlag, fault1, fault2) ==
    /\ call' = [op |-> "getAppMenu", refresh |-> refreshFlag, cache |-> cacheFile]
    /\ UNCHANGED <<appDirs, appFiles, iconDirs, iconFiles>>
    /\ IF hitsCache(refreshFlag) THEN ReturnCached
       ELSE Rebuild(refreshFlag, fault1, fault2)

(***************************************************************************)
(* The file system the program runs on, and what changes it.               *)
(***************************************************************************)
MaxEntries == 2    \* entries in one application directory
MaxDirs == 2       \* length of the directory list handed to collectDesktopFiles
MaxIcons == 3      \* icon files on disk
MaxHidden == 1     \* NoDisplay lines in the descriptor being written
MaxMarkers == 2    \* "[Desktop Entry]" lines in the descriptor being written

\* the file names the application directories may hold
FILE_NAMES == {"app.desktop", "b.desktop", "app.desktop.bak"}

\* a directory that does not exist
MISSING_DIR == "/opt/applications"

HEADER == "[Desktop Entry]"

\* the descriptor a package installs at dir/name
DescriptorOf(dir, name) ==
    CASE name = "app.desktop" /\ dir = SYSTEM_APPLICATIONS ->
            <<HEADER, "Name=App", "Comment=The application", "Exec=app %U",
              "Icon=app", "Terminal=false">>
      [] name = "app.desktop" /\ dir = USER_APPLICATIONS ->
            <<"# local override", HEADER, "Name=My App", "Exec=app --mine \"a b\" %f",
              "Terminal=True", "Keywords=mine;\tother;">>
      [] name = "b.desktop" /\ dir = SYSTEM_APPLICATIONS ->
            <<HEADER, "Exec=b">>
      [] name = "b.desktop" /\ dir = USER_APPLICATIONS ->
            <<HEADER, "Name=B", "NoDisplay=TRUE", "Exec=b">>
      [] OTHER -> <<HEADER, "Name=Backup", "Exec=backup">>

Idle == /\ call' = [op |-> "none"]
        /\ ret' = Nothing
        /\ trace' = <<>>

Install(dir, name) ==
    /\ Len(appDirs[dir].files) < MaxEntries
    /\ \A k \in 1..Len(appDirs[dir].files) : appDirs[dir].files[k] # name
    /\ appDirs' = [appDirs EXCEPT ![dir].files = Append(@, name)]
    /\ appFiles' = (dir \o "/" \o name :> [readable |-> TRUE, lines |-> DescriptorOf(dir, name)])
                       @@ appFiles
    /\ Idle
    /\ UNCHANGED <<cacheDir, cacheFile, iconDirs, iconFiles, built, fresh>>

RECURSIVE without(_, _)
without(names, name) ==
    IF names = <<>> THEN <<>>
    ELSE (IF names[1] = name THEN <<>> ELSE <<names[1]>>) \o without(Tail(names), name)

Uninstall(dir, name) ==
    /\ \E k \in 1..Len(appDirs[dir].files) : appDirs[dir].files[k] = name
    /\ appDirs' = [appDirs EXCEPT ![dir].files = without(@, name)]
    /\ appFiles' = [q \in DOMAIN appFiles \ {dir \o "/" \o name} |-> appFiles[q]]
    /\ Idle
    /\ UNCHANGED <<cacheDir, cacheFile, iconDirs, iconFiles, built, fresh>>

\* chmod on an application directory: OS.readdir answers EACCES while it is closed
ChmodDir(dir) ==
    /\ appDirs' = [appDirs EXCEPT ![dir].err = IF @ = 0 THEN 13 ELSE 0]
    /\ Idle
    /\ UNCHANGED <<cacheDir, cacheFile, appFiles, iconDirs, iconFiles, built, fresh>>

Init ==
    /\ cacheDir = FALSE
    /\ cacheFile = NoFile
    /\ appDirs = [d \in {SYSTEM_APPLICATIONS, USER_APPLICATIONS} |-> [err |-> 0, files |-> <<>>]]
    /\ appFiles = [q \in {} |-> NoFile]
    /\ iconDirs = [b \in {ICON_PATHS[1], ICON_PATHS[2]} |-> [err |-> 0, dirs |-> <<>>]]
    /\ iconFiles = {}
    /\ call = [op |-> "none"]
    /\ ret = Nothing
    /\ trace = <<>>
    /\ built = NULL
    /\ fresh = FALSE

(***************************************************************************)
(* The menu builder on a changing set of application directories.          *)
(***************************************************************************)
DIRECTORY_POOL == {SYSTEM_APPLICATIONS, USER_APPLICATIONS, MISSING_DIR}

DirectoryLists == UNION {[1..n -> DIRECTORY_POOL] : n \in 0..MaxDirs}

CollectDesktopFiles(directories) ==
    /\ call' = [op |-> "collectDesktopFiles", directories |-> directories]
    /\ ret' = Return(collectDesktopFiles(directories))
    /\ trace' = <<>>
    /\ UNCHANGED <<fsVars, built, fresh>>

PrepareAppsMenu ==
    /\ call' = [op |-> "prepareAppsMenu"]
    /\ ret' = Return(prepareAppsMenu)
    /\ trace' = <<>>
    /\ UNCHANGED <<fsVars, built, fresh>>

NextBuild ==
    \/ \E d \in DOMAIN appDirs, n \in FILE_NAMES : Install(d, n)
    \/ \E d \in DOMAIN appDirs, n \in FILE_NAMES : Uninstall(d, n)
    \/ \E d \in DOMAIN appDirs : ChmodDir(d)
    \/ \E ds \in DirectoryLists : CollectDesktopFiles(ds)
    \/ PrepareAppsMenu

SpecBuild == Init /\ [][NextBuild]_vars

(***************************************************************************)
(* Properties of the discovery scanner and the menu builder.               *)
(***************************************************************************)
\* whether the i-th directory of the list ds can be read and holds the file name n
holdsName(ds, i, n) ==
    /\ readdir(ds[i]).err = 0
    /\ \E k \in 1..Len(readdir(ds[i]).files) : readdir(ds[i]).files[k] = n

\* the names ending in ".desktop" that some readable directory of ds holds
namesFound(ds) ==
    {n \in FILE_NAMES : endsWith(n, ".desktop") /\ \E i \in 1..Len(ds) : holdsName(ds, i, n)}

earliestHolder(ds, n) ==
    CHOOSE i \in 1..Len(ds) : holdsName(ds, i, n) /\ \A j \in 1..(i - 1) : ~holdsName(ds, j, n)

\* C5: collectDesktopFiles returns exactly one path for every file name ending in
\* ".desktop" that a readable directory of the list holds, that path lies in the
\* earliest such directory, and it returns nothing else (nothing from unreadable
\* directories, no name without the suffix, no second path for a name).
DiscoveryDedup ==
    call.op = "collectDesktopFiles" =>
        LET ds == call.directories
            out == ret.value
        IN  /\ Len(out) = Cardinality(namesFound(ds))
            /\ \A n \in namesFound(ds) :
                   \E k \in 1..Len(out) : out[k] = ds[earliestHolder(ds, n)] \o "/" \o n

\* C5 witness: the same file name in two readable directories, scanned user
\* directory first, beside an entry without the suffix: one path, the first directory's
DiscoveryDedupWitness ==
    /\ call.op = "collectDesktopFiles"
    /\ call.directories = <<USER_APPLICATIONS, SYSTEM_APPLICATIONS>>
    /\ holdsName(call.directories, 1, "app.desktop")
    /\ holdsName(call.directories, 2, "app.desktop")
    /\ holdsName(call.directories, 2, "app.desktop.bak")
    /\ ret.value = <<USER_APPLICATIONS \o "/app.desktop">>

\* the records of a menu that come from the file at path
fromPath(menu, path) == {k \in 1..Len(menu) : get(menu[k], "path") = path}

\* C6 as claimed: when the user-local and the system-wide directory both hold a
\* descriptor of the same file name, the record of the built menu comes from the
\* user-local file, never from the system-wide one.
UserLocalPrecedence ==
    call.op = "prepareAppsMenu" =>
        \A n \in FILE_NAMES :
            (/\ holdsName(<<USER_APPLICATIONS>>, 1, n)
             /\ holdsName(<<SYSTEM_APPLICATIONS>>, 1, n))
            => fromPath(ret.value, SYSTEM_APPLICATIONS \o "/" \o n) = {}

\* the object the parser extracts from the file at path
parsedRecord(path) == extractDesktopEntryData(appFiles[path].lines)

nonEmpty(obj, k) == hasKey(obj, k) /\ get(obj, k) # ""

\* C7 as claimed: a discovered descriptor has its record in the built menu if and
\* only if the parsed record has a non-empty name, a non-empty exec command and is
\* not hidden; no record of the menu lacks a name.
MenuInclusion ==
    call.op = "prepareAppsMenu" =>
        LET found == collectDesktopFiles(DESKTOP_DIRS) IN
        /\ \A k \in 1..Len(found) :
               fromPath(ret.value, found[k]) # {}
               <=> (/\ canOpen(found[k])
                    /\ ~parsedRecord(found[k]).threw
                    /\ nonEmpty(parsedRecord(found[k]).appData, "name")
                    /\ nonEmpty(parsedRecord(found[k]).appData, "exec")
                    /\ ~get(parsedRecord(found[k]).appData, "noDisplay"))
        /\ \A k \in 1..Len(ret.value) : nonEmpty(ret.value[k], "name")

(***************************************************************************)
(* The parser on a descriptor file that is being written.                  *)
(***************************************************************************)
\* the descriptor under edit
DESCRIPTOR == USER_APPLICATIONS \o "/editor.desktop"

\* the lines of the [Desktop Entry] section, in the order an editor writes them;
\* a file holds each of the first seven keys at most once, in this order; Name and
\* Exec may each be left out, of the other keys a file holds the first few
FIELD_LINES ==
    <<"Name=Editor", "Comment=Edit text", "Exec=editor %F", "Icon=editor",
      "Terminal=false", "Categories=Utility;TextEditor;", "Keywords=text;edit;">>

HIDDEN_LINES == {"NoDisplay=true", "NoDisplay=True", "NoDisplay=false"}

\* lines of other kinds: a line before the section, an unknown key, a line that
\* makes the parser raise, and a later section with keys of its own
STRAY_LINE == "Name=Stray"
UNKNOWN_LINE == "X-Vendor=1"
RAISING_LINE == "__proto__=1"
ACTION_HEADER == "[Desktop Action new]"
ACTION_LINE == "Exec=editor --new"

descriptorLines == IF DESCRIPTOR \in DOMAIN appFiles THEN appFiles[DESCRIPTOR].lines ELSE <<>>

occurs(lines, l) == \E k \in 1..Len(lines) : lines[k] = l

\* the key of a line, "" for a line without separator
keyOf(line) == IF indexOf(line, "=") = 0 THEN "" ELSE SubSeq(line, 1, indexOf(line, "=") - 1)

\* the number of lines with key key
countKey(lines, key) == Cardinality({k \in 1..Len(lines) : keyOf(lines[k]) = key})

\* the position of a field line in FIELD_LINES
rank(l) == CHOOSE r \in 1..Len(FIELD_LINES) : FIELD_LINES[r] = l

\* the field lines a file may lack whatever else it holds
OPTIONAL_LINES == {FIELD_LINES[1], FIELD_LINES[3]}

\* the field line that has to be there before field line l is written, "" for none
lineBefore(l) ==
    LET earlier == {r \in 1..(rank(l) - 1) : FIELD_LINES[r] \notin OPTIONAL_LINES}
    IN  IF l \in OPTIONAL_LINES \/ earlier = {} THEN ""
        ELSE FIELD_LINES[CHOOSE r \in earlier : \A q \in earlier : q <= r]

\* whether the editor may write line l next; a raising line ends the file
mayWrite(lines, l) ==
    LET inSection ==
            occurs(lines, HEADER) /\ ~occurs(lines, ACTION_HEADER) /\ ~occurs(lines, RAISING_LINE)
        fields == {k \in 1..Len(lines) : occurs(FIELD_LINES, lines[k])}
    IN  CASE l = STRAY_LINE    -> lines = <<>>
          [] l = HEADER        -> \/ ~occurs(lines, HEADER)
                                  \/ /\ inSection
                                     /\ lines[Len(lines)] # HEADER
                                     /\ Cardinality({k \in 1..Len(lines) : lines[k] = HEADER}) < MaxMarkers
          [] l = ACTION_HEADER -> inSection
          [] l = ACTION_LINE   -> occurs(lines, ACTION_HEADER) /\ ~occurs(lines, ACTION_LINE)
          [] l \in HIDDEN_LINES -> inSection /\ countKey(lines, "NoDisplay") < MaxHidden
          [] l = UNKNOWN_LINE  -> inSection /\ lines[Len(lines)] = HEADER
                                            /\ ~occurs(SubSeq(lines, 1, Len(lines) - 1), HEADER)
          [] l = RAISING_LINE  -> inSection
          [] OTHER -> /\ inSection
                      /\ \A k \in fields : rank(lines[k]) < rank(l)
                      /\ lineBefore(l) # "" => occurs(lines, lineBefore(l))

WRITABLE_LINES ==
    {FIELD_LINES[r] : r \in 1..Len(FIELD_LINES)} \cup HIDDEN_LINES
        \cup {STRAY_LINE, UNKNOWN_LINE, RAISING_LINE, HEADER, ACTION_HEADER, ACTION_LINE}

WriteLine(l) ==
    /\ mayWrite(descriptorLines, l)
    /\ appFiles' = (DESCRIPTOR :> [readable |-> TRUE, lines |-> Append(descriptorLines, l)])
    /\ Idle
    /\ UNCHANGED <<cacheDir, cacheFile, appDirs, iconDirs, iconFiles, built, fresh>>

ParseDesktopFile(filePath) ==
    /\ call' = [op |-> "parseDesktopFile", filePath |-> filePath]
    /\ ret' = Return(parseDesktopFile(filePath))
    /\ trace' = <<>>
    /\ UNCHANGED <<fsVars, built, fresh>>

NextParse ==
    \/ \E l \in WRITABLE_LINES : WriteLine(l)
    \/ ParseDesktopFile(DESCRIPTOR)

SpecParse == Init /\ [][NextParse]_vars

(***************************************************************************)
(* Properties of the parser.                                               *)
(***************************************************************************)
\* the position of the first line beginning with the [Desktop Entry] marker, 0 if none
RECURSIVE markerFrom(_, _)
markerFrom(lines, k) ==
    IF k > Len(lines) THEN 0
    ELSE IF startsWith(lines[k], HEADER) THEN k
    ELSE markerFrom(lines, k + 1)

\* the position of the first line beginning with "[" after position k, Len + 1 if none
RECURSIVE nextSection(_, _)
nextSection(lines, k) ==
    IF k + 1 > Len(lines) THEN Len(lines) + 1
    ELSE IF startsWith(lines[k + 1], "[") THEN k + 1
    ELSE nextSection(lines, k + 1)

\* the lines of the [Desktop Entry] section: after the first marker, before the
\* next section marker
sectionOf(lines) ==
    IF markerFrom(lines, 1) = 0 THEN <<>>
    ELSE SubSeq(lines, markerFrom(lines, 1) + 1, nextSection(lines, markerFrom(lines, 1)) - 1)

valueOf(line) == SubSeq(line, indexOf(line, "=") + 1, Len(line))

hidesEntry(line) == keyOf(line) = "NoDisplay" /\ toLowerCase(valueOf(line)) = "true"

\* C8 as claimed: a descriptor whose [Desktop Entry] section holds a NoDisplay line
\* with the value "true" in any letter case, wherever the line stands among the
\* other keys, parses to null.
HiddenNeverListed ==
    (call.op = "parseDesktopFile" /\ canOpen(call.filePath)) =>
        ((\E k \in 1..Len(sectionOf(appFiles[call.filePath].lines)) :
              hidesEntry(sectionOf(appFiles[call.filePath].lines)[k]))
         => ret.value = NULL)

\* whether every key stands at most once in the section
singleKeys(lines) ==
    \A k \in 1..Len(sectionOf(lines)) :
        keyOf(sectionOf(lines)[k]) # "" => countKey(sectionOf(lines), keyOf(sectionOf(lines)[k])) = 1

\* the parser without the early stop: every line of the section is read
parseToEnd(filePath) ==
    validate(readLines(appFiles[filePath].lines, 1, <<<<"noDisplay", FALSE>>>>, FALSE, FALSE),
             filePath)

\* the keys of the lines the parser took from the file
keysRead(lines) ==
    {keyOf(lines[k]) : k \in 1..extractDesktopEntryData(lines).read}

\* C10 as claimed: on a descriptor whose section holds each key at most once, the
\* parser with the early stop yields what a parser reading the section to its end
\* yields, and the early stop is taken only once every recognised field, NoDisplay
\* included, has been read.
EarlyStopTransparent ==
    (/\ call.op = "parseDesktopFile"
     /\ canOpen(call.filePath)
     /\ singleKeys(appFiles[call.filePath].lines))
    => /\ ret.value = parseToEnd(call.filePath)
       /\ extractDesktopEntryData(appFiles[call.filePath].lines).early
              => FIELD_NAMES \subseteq keysRead(appFiles[call.filePath].lines)

\* the file cut down to the lines that are in scope: the first marker and the lines
\* of its section
scoped(lines) ==
    IF markerFrom(lines, 1) = 0 THEN <<>>
    ELSE <<lines[markerFrom(lines, 1)]>> \o sectionOf(lines)

\* C11 as claimed: only the lines after the first line beginning with
\* "[Desktop Entry]" and before the next line beginning with "[", a repeated
\* "[Desktop Entry]" included, affect the record: parsing the file yields what
\* parsing those lines alone yields.
SectionScoping ==
    (call.op = "parseDesktopFile" /\ canOpen(call.filePath)) =>
        ret.value = validate(extractDesktopEntryData(scoped(appFiles[call.filePath].lines)),
                             call.filePath)

(***************************************************************************)
(* The icon resolver on a changing set of icon directories.                *)
(***************************************************************************)
USER_ICONS == ICON_PATHS[1]
SYSTEM_ICONS == ICON_PATHS[2]
PIXMAPS == ICON_PATHS[3]

\* the icon files that may be on disk
ICON_POOL ==
    { USER_ICONS \o "/hicolor/48x48/apps/editor.png",
      USER_ICONS \o "/hicolor/48x48/apps/editor.svg",
      USER_ICONS \o "/hicolor/48x48/applications/editor.svg",
      USER_ICONS \o "/hicolor/32x32/apps/editor.svg",
      USER_ICONS \o "/Adwaita/48x48/apps/editor.svg",
      SYSTEM_ICONS \o "/hicolor/scalable/applications/editor.xpm",
      SYSTEM_ICONS \o "/Adwaita/16x16/apps/editor.png",
      PIXMAPS \o "/editor.xpm",
      PIXMAPS \o "/org.editor.svg",
      "/opt/editor/icon.png" }

\* the Icon values descriptors name
ICON_NAMES == {"editor", "editor.png", "/opt/editor/icon.png", "org.editor.App"}

\* what OS.readdir may list in an icon directory
THEME_LISTINGS == {<<>>, <<"Adwaita", "hicolor">>}

AddIcon(path) ==
    /\ path \notin iconFiles
    /\ Cardinality(iconFiles) < MaxIcons
    /\ iconFiles' = iconFiles \cup {path}
    /\ Idle
    /\ UNCHANGED <<cacheDir, cacheFile, appDirs, appFiles, iconDirs, built, fresh>>

RemoveIcon(path) ==
    /\ path \in iconFiles
    /\ iconFiles' = iconFiles \ {path}
    /\ Idle
    /\ UNCHANGED <<cacheDir, cacheFile, appDirs, appFiles, iconDirs, built, fresh>>

SetThemes(basePath, listing) ==
    /\ iconDirs[basePath].dirs # listing
    /\ iconDirs' = [iconDirs EXCEPT ![basePath].dirs = listing]
    /\ Idle
    /\ UNCHANGED <<cacheDir, cacheFile, appDirs, appFiles, iconFiles, built, fresh>>

\* chmod on an icon directory: its entries can still be found by OS.stat when only
\* listing it is denied
ChmodIconDir(basePath) ==
    /\ iconDirs' = [iconDirs EXCEPT ![basePath].err = IF @ = 0 THEN 13 ELSE 0]
    /\ Idle
    /\ UNCHANGED <<cacheDir, cacheFile, appDirs, appFiles, iconFiles, built, fresh>>

FindIconPath(iconName) ==
    /\ call' = [op |-> "findIconPath", iconName |-> iconName]
    /\ ret' = Return(findIconPath(iconName))
    /\ trace' = <<>>
    /\ UNCHANGED <<fsVars, built, fresh>>

NextIcon ==
    \/ \E q \in ICON_POOL : AddIcon(q)
    \/ \E q \in ICON_POOL : RemoveIcon(q)
    \/ \E b \in DOMAIN iconDirs, l \in THEME_LISTINGS : SetThemes(b, l)
    \/ \E b \in DOMAIN iconDirs : ChmodIconDir(b)
    \/ \E n \in ICON_NAMES : FindIconPath(n)

SpecIcon == Init /\ [][NextIcon]_vars

(***************************************************************************)
(* Properties of the icon resolver.                                        *)
(***************************************************************************)
\* the orders the resolver is to follow
DIRECTORY_ORDER == <<HOME_DIR \o "/.local/share/icons", "/usr/share/icons", "/usr/share/pixmaps">>
SIZE_ORDER == <<"48x48", "32x32", "24x24", "16x16", "scalable">>
CATEGORY_ORDER == <<"apps", "applications">>
EXTENSION_ORDER == <<".svg", ".png", ".xpm">>

\* "hicolor", then the themes OS.readdir lists in the directory
themeOrder(basePath) ==
    <<"hicolor">> \o (IF iconDirs[basePath].err = 0 THEN iconDirs[basePath].dirs ELSE <<>>)

\* the candidates of one directory, in the order theme, size, category, extension
candidatesIn(basePath, stem) ==
    IF basePath = "/usr/share/pixmaps"
    THEN [e \in 1..Len(EXTENSION_ORDER) |-> basePath \o "/" \o stem \o EXTENSION_ORDER[e]]
    ELSE LET themes == themeOrder(basePath)
             ne == Len(EXTENSION_ORDER)
             nc == Len(CATEGORY_ORDER)
             nz == Len(SIZE_ORDER)
         IN  [k \in 1..(Len(themes) * nz * nc * ne) |->
                 basePath \o "/" \o themes[((k - 1) \div (nz * nc * ne)) + 1]
                          \o "/" \o SIZE_ORDER[(((k - 1) \div (nc * ne)) % nz) + 1]
                          \o "/" \o CATEGORY_ORDER[(((k - 1) \div ne) % nc) + 1]
                          \o "/" \o stem \o EXTENSION_ORDER[((k - 1) % ne) + 1]]

\* all the candidates, directory by directory
candidates(stem) ==
    candidatesIn(DIRECTORY_ORDER[1], stem) \o candidatesIn(DIRECTORY_ORDER[2], stem)
        \o candidatesIn(DIRECTORY_ORDER[3], stem)

\* the first candidate on disk, or the stem when none is
firstOnDisk(stem) ==
    LET cs == candidates(stem)
        hits == {k \in 1..Len(cs) : cs[k] \in iconFiles}
    IN  IF hits = {} THEN stem ELSE cs[CHOOSE k \in hits : \A m \in hits : k <= m]

\* the name with what follows its last dot removed, when that holds no slash
stemOf(iconName) ==
    LET dots == {d \in 1..(Len(iconName) - 1) :
                    /\ SubSeq(iconName, d, d) = "."
                    /\ \A m \in (d + 1)..Len(iconName) : SubSeq(iconName, m, m) \notin {".", "/"}}
    IN  IF dots = {} THEN iconName ELSE SubSeq(iconName, 1, (CHOOSE d \in dots : TRUE) - 1)

\* C9: for an icon name that is not an absolute path found on disk, findIconPath
\* returns the first candidate on disk, the candidates taken in the order directory
\* (user, system, pixmaps), theme ("hicolor", then the themes listed), size, category,
\* extension, the pixmaps directory giving only name + extension; with no candidate
\* on disk it returns the name without its extension.
IconResolutionOrder ==
    (call.op = "findIconPath" /\ call.iconName \notin iconFiles)
        => ret = Return(firstOnDisk(stemOf(call.iconName)))

\* OS.readdir lists the directory; nothing is listed in the pixmaps directory
searched(basePath) == basePath = "/usr/share/pixmaps" \/ iconDirs[basePath].err = 0

\* the candidates of the directories that are searched, directory by directory
candidatesSearched(stem) ==
    (IF searched(DIRECTORY_ORDER[1]) THEN candidatesIn(DIRECTORY_ORDER[1], stem) ELSE <<>>)
        \o (IF searched(DIRECTORY_ORDER[2]) THEN candidatesIn(DIRECTORY_ORDER[2], stem) ELSE <<>>)
        \o candidatesIn(DIRECTORY_ORDER[3], stem)

firstSearchedOnDisk(stem) ==
    LET cs == candidatesSearched(stem)
        hits == {k \in 1..Len(cs) : cs[k] \in iconFiles}
    IN  IF hits = {} THEN stem ELSE cs[CHOOSE k \in hits : \A m \in hits : k <= m]

\* C9, amended: the same order, over the candidates of the pixmaps directory and of
\* those of the user and system icon directories that OS.readdir can list; a
\* directory that cannot be listed gives no candidate, "hicolor" included.
IconResolutionOrderListed ==
    (call.op = "findIconPath" /\ call.iconName \notin iconFiles)
        => ret = Return(firstSearchedOnDisk(stemOf(call.iconName)))

\* the user directory cannot be listed and holds the icon under "hicolor"; the icon
\* returned is the one a listed theme of the system directory holds
IconResolutionOrderWitness ==
    /\ call.op = "findIconPath" /\ call.iconName = "editor.png"
    /\ iconDirs[DIRECTORY_ORDER[1]].err # 0
    /\ DIRECTORY_ORDER[1] \o "/hicolor/48x48/apps/editor.png" \in iconFiles
    /\ DIRECTORY_ORDER[3] \o "/editor.xpm" \in iconFiles
    /\ ret = Return(DIRECTORY_ORDER[2] \o "/Adwaita/16x16/apps/editor.png")


(***************************************************************************)
(* The cache in front of the builder: runs of getAppMenu between changes   *)
(* to the installed applications and to the cache file.                    *)
(***************************************************************************)
\* what else may be found in the cache file: nothing, and a text cut short
FOREIGN_TEXTS == {"", "{\"Apps\":[{\"name\":"}

\* what the system may do to an open that nothing in the file system prevents
FAULTS == {0} \cup TRANSIENT_ERRNO

\* something other than getAppMenu writes the cache file
Overwrite(text) ==
    /\ cacheDir
    /\ cacheFile.data # text \/ ~cacheFile.exists
    /\ cacheFile' = written(text)
    /\ built' = NULL
    /\ fresh' = FALSE
    /\ Idle
    /\ UNCHANGED <<cacheDir, appDirs, appFiles, iconDirs, iconFiles>>

\* rm -r of the cache directory
RemoveCacheDir ==
    /\ cacheDir
    /\ cacheDir' = FALSE
    /\ cacheFile' = NoFile
    /\ built' = NULL
    /\ fresh' = FALSE
    /\ Idle
    /\ UNCHANGED <<appDirs, appFiles, iconDirs, iconFiles>>

\* chmod on the cache file
ChmodCache(r, w) ==
    /\ cacheFile.exists
    /\ <<r, w>> # <<cacheFile.readable, cacheFile.writable>>
    /\ cacheFile' = [cacheFile EXCEPT !.readable = r, !.writable = w]
    /\ built' = NULL
    /\ fresh' = FALSE
    /\ Idle
    /\ UNCHANGED <<cacheDir, appDirs, appFiles, iconDirs, iconFiles>>

Next ==
    \/ \E n \in FILE_NAMES : Install(SYSTEM_APPLICATIONS, n)
    \/ \E n \in FILE_NAMES : Uninstall(SYSTEM_APPLICATIONS, n)
    \/ \E text \in FOREIGN_TEXTS : Overwrite(text)
    \/ RemoveCacheDir
    \/ \E r, w \in BOOLEAN : ChmodCache(r, w)
    \/ \E refreshFlag \in BOOLEAN, fault1, fault2 \in FAULTS : GetAppMenu(refreshFlag, fault1, fault2)

Spec == Init /\ [][Next]_vars

(***************************************************************************)
(* Properties of getAppMenu.                                               *)
(***************************************************************************)
\* the steps of the last run that have the given name
stepsNamed(name) == {k \in 1..Len(trace) : trace[k][1] = name}

did(name) == stepsNamed(name) # {}

\* the errno of the n-th STD.open of the last run
openErrnoAt(n) ==
    LET opens == stepsNamed("open")
        k == CHOOSE k \in opens : Cardinality({m \in opens : m <= k}) = n
    IN  trace[k][2]

\* the structure a build in the current state gives
freshBuild == <<<<"Apps", prepareAppsMenu>>>>

\* the last run was a getAppMenu without the refresh argument
plainRun == call.op = "getAppMenu" /\ ~call.refresh

\* the last run was a getAppMenu with the refresh argument
refreshRun == call.op = "getAppMenu" /\ call.refresh

\* C1: once getAppMenu has built a list and written it to the cache file, and the
\* cache file has not changed since, a run without the refresh argument returns that
\* list, record for record and field for field in the same order, without running
\* prepareAppsMenu and without opening or writing the cache file.
CacheRoundTrip ==
    [][(fresh /\ call'.op = "getAppMenu" /\ ~call'.refresh)
          => /\ ret'.kind = "return"
             /\ get(ret'.value, "Apps") = get(built, "Apps")
             /\ trace' = <<<<"loadFile">>, <<"JSON.parse">>>>
             /\ cacheFile' = cacheFile]_vars

\* a run answered from a cache that no longer matches the application directories
CacheRoundTripWitness ==
    /\ plainRun /\ fresh
    /\ ret = Return(built)
    /\ Len(get(built, "Apps")) = 2
    /\ built # freshBuild
    /\ ~did("prepareAppsMenu") /\ ~did("open")

\* C2: a run with the refresh argument never reads the cache file, runs
\* prepareAppsMenu, and when it returns, what it returns is the list just built and
\* the cache file holds exactly the encoding of that list.
ForcedRefresh ==
    refreshRun =>
        /\ ~did("loadFile") /\ ~did("JSON.parse")
        /\ did("prepareAppsMenu")
        /\ ret.kind = "return" =>
              /\ ret.value = freshBuild
              /\ cacheFile.exists
              /\ cacheFile.data = stringify(freshBuild)

\* a refresh that replaced a decodable cache of another list
ForcedRefreshWitness ==
    /\ refreshRun /\ ret.kind = "return"
    /\ call.cache.exists /\ call.cache.readable
    /\ parse(call.cache.data).ok
    /\ get(parse(call.cache.data).val, "Apps") # <<>>
    /\ call.cache.data # cacheFile.data
    /\ get(ret.value, "Apps") # <<>>

\* the cache file could not be read, or what was read could not be decoded
cacheMiss ==
    \/ ~(call.cache.exists /\ call.cache.readable)
    \/ ~parse(call.cache.data).ok

\* C3: a run without the refresh argument that cannot read the cache file, or reads
\* text it cannot decode, runs prepareAppsMenu, writes the result and returns it; the
\* only error it may raise is the one for a cache file that cannot be opened for
\* writing.
CacheMissFallback ==
    (plainRun /\ cacheMiss) =>
        /\ did("prepareAppsMenu")
        /\ ret.kind = "throw" => ret.value[1] = "Error"
        /\ ret.kind = "return" =>
              /\ ret.value = freshBuild
              /\ cacheFile.data = stringify(freshBuild)

\* C4: when the first STD.open fails with ENOENT the directory is created once and
\* the open is tried once more; when the first STD.open fails with another errno, or
\* the second fails, the run raises the error that carries the path and the errno,
\* and nothing is written.
WriteFailurePolicy ==
    (call.op = "getAppMenu" /\ did("open")) =>
        LET errno1 == openErrnoAt(1)
            retried == Cardinality(stepsNamed("open")) = 2
        IN  /\ Cardinality(stepsNamed("open")) <= 2
            /\ Cardinality(stepsNamed("ensureDir")) = (IF errno1 = ENOENT THEN 1 ELSE 0)
            /\ errno1 = ENOENT => retried
            /\ (errno1 \notin {0, ENOENT} \/ (retried /\ openErrnoAt(2) # 0))
                  => /\ ret.kind = "throw"
                     /\ ret = openFailure(IF retried THEN openErrnoAt(2) ELSE errno1)
                     /\ ~did("puts")

====
